---- MODULE Spec2Model ----
(***************************************************************************)
(* gitalyze (src/main.js): walk the remote branches of a git repository,   *)
(* collect every reachable commit once, fetch its metadata and upsert one  *)
(* document per commit into a MongoDB collection.                          *)
(*                                                                         *)
(* Text is modelled as a sequence of one-character strings, so that the    *)
(* splitting, trimming, joining, sorting and regular-expression tests of   *)
(* the program are computed character by character.                        *)
(***************************************************************************)
EXTENDS Integers, Sequences, FiniteSets, TLC

VARIABLES
    pc,          \* position of main(): the next step to perform, or "exit0"/"exit1"
    world,       \* the repository: branch of the remote -> number of its tip commit
    changed,     \* TRUE once the repository differs from the one the first run saw
    run,         \* number of the current process run (1..MaxRuns)
    repoName,    \* var repoName
    branches,    \* var branches
    bi,          \* number of branches already walked by the for-of loop
    listed,      \* branch name -> the hashes its rev-list call yielded in this run
    commits,     \* var commits: the Map, as the sequence of its values in insertion order
    ci,          \* number of commits already completed by the per-commit loop
    cur,         \* results of the git show queries made so far for the current commit
    store,       \* the 'commits' collection: _id -> document
    first,       \* how the first run ended and the collection as it left it
    exits,       \* the codes handed to process.exit (at most one)
    ops,         \* external operations performed in this run, oldest first
    fin,         \* input of the computation under study (function specifications)
    fout         \* its result, once pc = "output"

vars == <<pc, world, changed, run, repoName, branches, bi, listed, commits, ci,
          cur, store, first, exits, ops, fin, fout>>

progVars == <<world, changed, run, repoName, branches, bi, listed, commits, ci,
              cur, store, first, exits, ops>>

\* a nullable integer is <<n>> or Null; an absent array element is Undefined
Null == <<>>
Num(n) == <<n>>
Undefined == <<"undefined">>

(***************************************************************************)
(* Characters and strings                                                  *)
(***************************************************************************)
TAB == "\t"
NL == "\n"
SP == " "

\* The characters in increasing UTF-16 code unit order.
Ascii ==
    <<TAB, NL, SP, "-", ".", "/",
      "0", "1", "2", "3", "4", "5", "6", "7", "8", "9", ":",
      "A", "B", "C", "D", "E", "F", "G", "H", "I", "J", "K", "L", "M",
      "N", "O", "P", "Q", "R", "S", "T", "U", "V", "W", "X", "Y", "Z",
      "a", "b", "c", "d", "e", "f", "g", "h", "i", "j", "k", "l", "m",
      "n", "o", "p", "q", "r", "s", "t", "u", "v", "w", "x", "y", "z">>

CodeOf == [c \in {Ascii[i] : i \in 1..Len(Ascii)} |-> CHOOSE i \in 1..Len(Ascii) : Ascii[i] = c]

Code(c) == CodeOf[c]

Digits == <<"0", "1", "2", "3", "4", "5", "6", "7", "8", "9">>

DigitSet == {Digits[i] : i \in 1..Len(Digits)}

IsDigit(c) == c \in DigitSet

DigitValue(c) == (CHOOSE i \in 1..Len(Digits) : Digits[i] = c) - 1

\* \s of a regular expression and the characters String.prototype.trim removes,
\* among the characters of Ascii
IsSpace(c) == c \in {SP, TAB, NL}

UpperFirst == Code("A")
UpperLast == Code("Z")
CaseGap == Code("a") - Code("A")

FoldOf ==
    [c \in {Ascii[i] : i \in 1..Len(Ascii)} |->
        IF Code(c) >= UpperFirst /\ Code(c) <= UpperLast THEN Ascii[Code(c) + CaseGap]
        ELSE c]

\* canonical case of a character under the regular expression flag i
Fold(c) == FoldOf[c]

MapSeq(Op(_), s) == [i \in 1..Len(s) |-> Op(s[i])]

Tail2(s, i) == SubSeq(s, i, Len(s))

\* String.prototype.trim
RECURSIVE TrimLeft(_)
TrimLeft(s) == IF s # <<>> /\ IsSpace(s[1]) THEN TrimLeft(Tail(s)) ELSE s

RECURSIVE TrimRight(_)
TrimRight(s) ==
    IF s # <<>> /\ IsSpace(s[Len(s)]) THEN TrimRight(SubSeq(s, 1, Len(s) - 1)) ELSE s

Trim(s) == TrimRight(TrimLeft(s))

\* String.prototype.split with a one-character separator
RECURSIVE Split(_, _)
Split(s, sep) ==
    IF \A i \in 1..Len(s) : s[i] # sep
    THEN <<s>>
    ELSE LET i == CHOOSE k \in 1..Len(s) : s[k] = sep /\ \A j \in 1..(k - 1) : s[j] # sep
         IN  <<SubSeq(s, 1, i - 1)>> \o Split(Tail2(s, i + 1), sep)

\* Array.prototype.join with a one-character separator
RECURSIVE Join(_, _)
Join(parts, sep) ==
    IF parts = <<>> THEN <<>>
    ELSE IF Len(parts) = 1 THEN parts[1]
    ELSE parts[1] \o <<sep>> \o Join(Tail(parts), sep)

RECURSIVE Concat(_)
Concat(parts) == IF parts = <<>> THEN <<>> ELSE parts[1] \o Concat(Tail(parts))

\* the default comparison of Array.prototype.sort: by code units, a prefix first
RECURSIVE StrLess(_, _)
StrLess(a, b) ==
    IF b = <<>> THEN FALSE
    ELSE IF a = <<>> THEN TRUE
    ELSE IF a[1] # b[1] THEN Code(a[1]) < Code(b[1])
    ELSE StrLess(Tail(a), Tail(b))

RECURSIVE InsertSorted(_, _)
InsertSorted(x, s) ==
    IF s = <<>> THEN <<x>>
    ELSE IF StrLess(x, s[1]) THEN <<x>> \o s
    ELSE <<s[1]>> \o InsertSorted(x, Tail(s))

\* Array.prototype.sort() without a comparator (stable)
RECURSIVE Sort(_)
Sort(s) ==
    IF s = <<>> THEN <<>>
    ELSE InsertSorted(s[Len(s)], Sort(SubSeq(s, 1, Len(s) - 1)))

\* git(args, cwd): the trimmed standard output of a git command that exits with 0
git(stdout) == Trim(stdout)

\* .split('\n').map(l => l.trim()).filter(l => l.length > 0)
Lines(text) == SelectSeq(MapSeq(Trim, Split(text, NL)), LAMBDA l : Len(l) > 0)

(***************************************************************************)
(* The pure computations of main()                                         *)
(***************************************************************************)
W_refs == <<"r", "e", "f", "s">>
W_remotes == <<"r", "e", "m", "o", "t", "e", "s">>
W_heads == <<"h", "e", "a", "d", "s">>
W_origin == <<"o", "r", "i", "g", "i", "n">>
W_up == <<"u", "p">>
W_HEAD == <<"H", "E", "A", "D">>
W_main == <<"m", "a", "i", "n">>
W_dev == <<"d", "e", "v">>
W_feature == <<"f", "e", "a", "t", "u", "r", "e">>
W_x == <<"x">>
W_Zeta == <<"Z", "e", "t", "a">>

\* var repoName = _.last(repoUrl.split('/'))
RepoNameOf(repoUrl) == LET parts == Split(repoUrl, "/") IN parts[Len(parts)]

\* the pipeline on the output of git branch -r --format='%(refname)'
BranchListUnsorted(stdout, remoteName) ==
    LET lines == MapSeq(Trim, Split(git(stdout), NL))
        deep == SelectSeq(lines, LAMBDA l : Len(Split(l, "/")) >= 4)
        mine == SelectSeq(deep, LAMBDA l : Split(l, "/")[3] = remoteName)
        names == MapSeq(LAMBDA l : Join(Tail2(Split(l, "/"), 4), "/"), mine)
    IN  SelectSeq(names, LAMBDA l : l # W_HEAD)

\* faulty variant: the symbolic ref HEAD is not filtered out
BranchListKeepHead(stdout, remoteName) ==
    LET lines == MapSeq(Trim, Split(git(stdout), NL))
        deep == SelectSeq(lines, LAMBDA l : Len(Split(l, "/")) >= 4)
        mine == SelectSeq(deep, LAMBDA l : Split(l, "/")[3] = remoteName)
    IN  Sort(MapSeq(LAMBDA l : Join(Tail2(Split(l, "/"), 4), "/"), mine))

BranchList(stdout, remoteName) == Sort(BranchListUnsorted(stdout, remoteName))

\* the characters of s from position i on start with word w, ignoring case
MatchWord(s, i, w) ==
    /\ i >= 1
    /\ i + Len(w) - 1 <= Len(s)
    /\ \A k \in 1..Len(w) : Fold(s[i + k - 1]) = Fold(w[k])

\* positions i..j-1 of s hold whitespace only
SpaceRun(s, i, j) == \A k \in i..(j - 1) : IsSpace(s[k])

DigitRun(s, i, j) == \A k \in i..(j - 1) : IsDigit(s[k])

\* ^ under the flag m: the start of the input or of a line
LineStart(s, p) == p = 1 \/ s[p - 1] = NL

W_PR == <<"P", "R">>
W_Merged == <<"M", "e", "r", "g", "e", "d">>
W_Merge == <<"M", "e", "r", "g", "e">>

\* PR\s+\d+: matched at position j
MatchPRTail(s, j) ==
    /\ MatchWord(s, j, W_PR)
    /\ \E k \in (j + Len(W_PR) + 1)..Len(s) :
          /\ SpaceRun(s, j + Len(W_PR), k)
          /\ \E m \in (k + 1)..Len(s) : DigitRun(s, k, m) /\ s[m] = ":"

\* (/^\s*(Merged\s+)?PR\s+\d+:/mi).test(subject)
TestPR(subject) ==
    \E p \in 1..Len(subject) :
       /\ LineStart(subject, p)
       /\ \E i \in p..Len(subject) :
             /\ SpaceRun(subject, p, i)
             /\ \/ MatchPRTail(subject, i)
                \/ /\ MatchWord(subject, i, W_Merged)
                   /\ \E j \in (i + Len(W_Merged) + 1)..Len(subject) :
                         /\ SpaceRun(subject, i + Len(W_Merged), j)
                         /\ MatchPRTail(subject, j)

\* (/Merge/mi).test(subject)
TestMerge(subject) == \E i \in 1..Len(subject) : MatchWord(subject, i, W_Merge)

isPR(subject) == TestPR(subject)

\* faulty variant: isMerge is not gated on isPR
isMergeUngated(subject) == TestMerge(subject)

isMerge(subject) == ~isPR(subject) /\ TestMerge(subject)

\* `${commitDetails.repo}-${commitDetails.remote}-${commitDetails.hash}`
MakeId(repo, remote, hash) == repo \o <<"-">> \o remote \o <<"-">> \o hash

\* /^\d+$/.test(field); an absent field is tested as the text "undefined"
AllDigits(field) ==
    /\ field # Undefined
    /\ Len(field) > 0
    /\ \A k \in 1..Len(field) : IsDigit(field[k])

\* parseInt of a string of decimal digits
RECURSIVE ParseInt(_)
ParseInt(field) ==
    IF field = <<>> THEN 0
    ELSE 10 * ParseInt(SubSeq(field, 1, Len(field) - 1)) + DigitValue(field[Len(field)])

FieldAt(fields, k) == IF k <= Len(fields) THEN fields[k] ELSE Undefined

StatEntry(l) ==
    LET f == MapSeq(Trim, Split(l, TAB))
    IN  [path |-> FieldAt(f, 3),
         insertions |-> IF AllDigits(FieldAt(f, 1)) THEN Num(ParseInt(f[1])) ELSE Null,
         deletions |-> IF AllDigits(FieldAt(f, 2)) THEN Num(ParseInt(f[2])) ELSE Null]

\* commitDetails.stats.file, from the output of git show --format='' --numstat
StatsFile(stdout) == MapSeq(StatEntry, Lines(git(stdout)))

\* e.insertions || 0
OrZero(v) == IF v = Null THEN 0 ELSE v[1]

RECURSIVE SumIns(_)
SumIns(file) ==
    IF file = <<>> THEN 0
    ELSE SumIns(SubSeq(file, 1, Len(file) - 1)) + OrZero(file[Len(file)].insertions)

RECURSIVE SumDel(_)
SumDel(file) ==
    IF file = <<>> THEN 0
    ELSE SumDel(SubSeq(file, 1, Len(file) - 1)) + OrZero(file[Len(file)].deletions)

\* faulty variant: both totals reduce over the insertions
StatsTotalInsOnly(file) == [insertions |-> SumIns(file), deletions |-> SumIns(file)]

\* commitDetails.stats.total
StatsTotal(file) == [insertions |-> SumIns(file), deletions |-> SumDel(file)]

Stats(stdout) == [file |-> StatsFile(stdout), total |-> StatsTotal(StatsFile(stdout))]

(***************************************************************************)
(* Function specifications: the input of one computation of main() is      *)
(* built up piece by piece, then the computation is applied to it.         *)
(***************************************************************************)
MaxRefs == 3
MaxPieces == 6
MaxFiles == 4

Idle ==
    /\ world = <<>> /\ changed = FALSE /\ run = 0 /\ repoName = <<>>
    /\ branches = <<>> /\ bi = 0 /\ listed = <<>> /\ commits = <<>> /\ ci = 0
    /\ cur = <<>> /\ store = <<>> /\ first = <<>> /\ exits = <<>>
    /\ ops = <<>>

\* ---- list all branches (src/main.js 42-50)
Ref(segments) == Join(segments, "/")

RefPool ==
    { Ref(<<W_refs, W_remotes, W_origin, W_main>>),
      Ref(<<W_refs, W_remotes, W_origin, W_HEAD>>),
      Ref(<<W_refs, W_remotes, W_origin, W_feature, W_x>>),
      Ref(<<W_refs, W_remotes, W_origin, W_Zeta>>),
      Ref(<<W_refs, W_remotes, W_origin, W_HEAD, W_x>>),
      Ref(<<W_refs, W_remotes, W_up, W_main>>),
      Ref(<<W_refs, W_remotes, W_up, W_HEAD>>),
      Ref(<<W_refs, W_heads, W_main>>),
      Ref(<<W_refs, W_heads, W_origin, W_dev>>),
      Ref(<<W_origin, W_main>>) }

RemotePool == {W_origin, W_up}

BranchesInit ==
    /\ Idle
    /\ pc = "input"
    /\ \E r \in RemotePool : fin = [remoteName |-> r, refs |-> <<>>]
    /\ fout = <<>>

AddRef ==
    /\ pc = "input"
    /\ Len(fin.refs) < MaxRefs
    /\ \E r \in RefPool : fin' = [fin EXCEPT !.refs = Append(@, r)]
    /\ UNCHANGED <<pc, fout, progVars>>

ListBranches ==
    /\ pc = "input"
    /\ fout' = BranchList(Join(fin.refs, NL), fin.remoteName)
    /\ pc' = "output"
    /\ UNCHANGED <<fin, progVars>>

BranchesNext == AddRef \/ ListBranches

SpecBranches == BranchesInit /\ [][BranchesNext]_vars

\* positions of the '/' characters of a ref
Slashes(l) == {k \in 1..Len(l) : l[k] = "/"}

NthSlash(l, n) == CHOOSE k \in Slashes(l) : Cardinality({j \in Slashes(l) : j <= k}) = n

\* a ref of at least four segments whose segment at index 2 is the remote name
Qualifies(l, remote) ==
    /\ Cardinality(Slashes(l)) >= 3
    /\ SubSeq(l, NthSlash(l, 2) + 1, NthSlash(l, 3) - 1) = remote

\* the ref without its first three segments
NameOfRef(l) == SubSeq(l, NthSlash(l, 3) + 1, Len(l))

LexLeq(a, b) ==
    LET n == IF Len(a) < Len(b) THEN Len(a) ELSE Len(b)
        d == {k \in 1..n : a[k] # b[k]}
    IN  IF d = {} THEN Len(a) <= Len(b)
        ELSE LET k == CHOOSE x \in d : \A y \in d : x <= y
             IN  Code(a[k]) < Code(b[k])

ExpectedNames(refs, remote) ==
    {NameOfRef(refs[i]) : i \in {j \in 1..Len(refs) : Qualifies(refs[j], remote)}}
        \ {W_HEAD}

ExpectedCount(refs, remote) ==
    Cardinality({j \in 1..Len(refs) :
                    Qualifies(refs[j], remote) /\ NameOfRef(refs[j]) # W_HEAD})

\* C9: the branch list holds exactly the names of the refs that have at least
\* four '/'-separated segments and the remote name at segment index 2, each
\* without its first three segments, except the name HEAD, one entry per such
\* ref, in lexicographic order.
C9_BranchList ==
    pc = "output" =>
        /\ {fout[i] : i \in 1..Len(fout)} = ExpectedNames(fin.refs, fin.remoteName)
        /\ Len(fout) = ExpectedCount(fin.refs, fin.remoteName)
        /\ \A i \in 1..Len(fout) : \A j \in i..Len(fout) : LexLeq(fout[i], fout[j])

\* the refs of the claim's example
C9_Witness ==
    /\ pc = "output"
    /\ fin.remoteName = W_origin
    /\ fin.refs = <<Ref(<<W_refs, W_remotes, W_origin, W_feature, W_x>>),
                    Ref(<<W_refs, W_remotes, W_origin, W_HEAD>>),
                    Ref(<<W_refs, W_heads, W_main>>)>>
    /\ fout = <<Ref(<<W_feature, W_x>>)>>

\* ---- check special commits (src/main.js 97-99)
W_pr == <<"p", "r">>
W_pR == <<"p", "R">>
W_mERGED == <<"m", "E", "R", "G", "E", "D">>

PiecePool == {<<SP>>, W_mERGED, W_pR, <<"7">>, <<":">>, W_x}

ClassifyInit ==
    /\ Idle
    /\ pc = "input"
    /\ fin = <<>>
    /\ fout = [isPR |-> FALSE, isMerge |-> FALSE]

\* fin holds the pieces of the subject line
AddPiece ==
    /\ pc = "input"
    /\ Len(fin) < MaxPieces
    /\ \E w \in PiecePool : fin' = Append(fin, w)
    /\ UNCHANGED <<pc, fout, progVars>>

Classify ==
    /\ pc = "input"
    /\ fout' = [isPR |-> isPR(Concat(fin)), isMerge |-> isMerge(Concat(fin))]
    /\ pc' = "output"
    /\ UNCHANGED <<fin, progVars>>

ClassifyNext == AddPiece \/ Classify

SpecClassify == ClassifyInit /\ [][ClassifyNext]_vars

RECURSIVE SkipSpaces(_)
SkipSpaces(s) == IF s # <<>> /\ s[1] \in {SP, TAB, NL} THEN SkipSpaces(Tail(s)) ELSE s

LowerCase(s) == [k \in 1..Len(s) |-> Fold(s[k])]

StartsWith(s, w) == Len(s) >= Len(w) /\ SubSeq(s, 1, Len(w)) = w

Drop(s, n) == SubSeq(s, n + 1, Len(s))

\* s starts with "pr", whitespace, digits and a colon
StartsWithPRNumber(s) ==
    /\ StartsWith(s, W_pr)
    /\ LET a == Drop(s, Len(W_pr))
           b == SkipSpaces(a)
       IN  /\ Len(b) < Len(a)
           /\ \E n \in 1..Len(b) :
                 /\ \A k \in 1..n : b[k] \in DigitSet
                 /\ n < Len(b)
                 /\ b[n + 1] = ":"

\* the subject, in lower case and without leading whitespace and without an
\* optional "merged" + whitespace prefix, starts with "pr <digits>:"
ExpectedPR(subject) ==
    LET s == SkipSpaces(LowerCase(subject))
        m == LowerCase(W_Merged)
        t == Drop(s, Len(m))
    IN  \/ StartsWithPRNumber(s)
        \/ /\ StartsWith(s, m)
           /\ Len(SkipSpaces(t)) < Len(t)
           /\ StartsWithPRNumber(SkipSpaces(t))

ContainsMerge(subject) ==
    \E i \in 1..Len(subject) :
        /\ i + 4 <= Len(subject)
        /\ LowerCase(SubSeq(subject, i, i + 4)) = LowerCase(W_Merge)

\* C7: isPR and isMerge are never both true; isPR holds exactly when the subject,
\* case-insensitively, after optional leading whitespace and an optional
\* "Merged" + whitespace prefix, starts with PR, whitespace, digits and ':';
\* isMerge holds exactly when isPR does not and the subject contains "merge"
\* in any case.
C7_Classification ==
    pc = "output" =>
        /\ ~(fout.isPR /\ fout.isMerge)
        /\ fout.isPR <=> ExpectedPR(Concat(fin))
        /\ fout.isMerge <=> (~fout.isPR /\ ContainsMerge(Concat(fin)))

\* 'mERGED pR 7:' is a pull request and no merge, though it contains 'merge'
C7_Witness ==
    /\ pc = "output"
    /\ fin = <<W_mERGED, <<SP>>, W_pR, <<SP>>, <<"7">>, <<":">>>>
    /\ fout = [isPR |-> TRUE, isMerge |-> FALSE]

\* ---- fetch commit stats (src/main.js 104-120)
W_foo == <<"f", "o", "o", ".", "t", "x", "t">>
W_bar == <<"b", "a", "r", ".", "t", "x", "t">>
W_bin == <<"b", "i", "n", "a", "r", "y", ".", "b", "i", "n">>

\* what git prints for a count: its decimal digits, or '-' for a binary file
RECURSIVE Decimal(_)
Decimal(n) ==
    IF n < 10 THEN <<Digits[n + 1]>> ELSE Decimal(n \div 10) \o <<Digits[(n % 10) + 1]>>

CountText(v) == IF v = Null THEN <<"-">> ELSE Decimal(v[1])

FileLine(ins, del, path) == [blank |-> FALSE, ins |-> ins, del |-> del, path |-> path]

BlankLine == [blank |-> TRUE, ins |-> Null, del |-> Null, path |-> <<>>]

\* one line of git show --numstat: <insertions>TAB<deletions>TAB<path>
NumstatLine(e) ==
    IF e.blank THEN <<>>
    ELSE CountText(e.ins) \o <<TAB>> \o CountText(e.del) \o <<TAB>> \o e.path

NumstatOutput(entries) == Join(MapSeq(NumstatLine, entries), NL)

LinePool ==
    { FileLine(Num(3), Num(0), W_foo),
      FileLine(Null, Null, W_bin),
      FileLine(Num(0), Num(5), W_bar),
      FileLine(Num(12), Null, W_foo),
      FileLine(Null, Num(120), W_bin),
      BlankLine }

StatsInit ==
    /\ Idle
    /\ pc = "input"
    /\ fin = <<>>
    /\ fout = Stats(<<>>)

AddLine ==
    /\ pc = "input"
    /\ Len(fin) < MaxFiles
    /\ \E e \in LinePool : fin' = Append(fin, e)
    /\ UNCHANGED <<pc, fout, progVars>>

FetchStats ==
    /\ pc = "input"
    /\ fout' = Stats(NumstatOutput(fin))
    /\ pc' = "output"
    /\ UNCHANGED <<fin, progVars>>

StatsNext == AddLine \/ FetchStats

SpecStats == StatsInit /\ [][StatsNext]_vars

FileLines(entries) == SelectSeq(entries, LAMBDA e : ~e.blank)

\* sum of the non-null counts among the first n entries
RECURSIVE CountSum(_, _, _)
CountSum(entries, field, n) ==
    IF n = 0 THEN 0
    ELSE CountSum(entries, field, n - 1)
            + (IF entries[n][field] = Null THEN 0 ELSE entries[n][field][1])

\* C8: stats.file has one entry per non-empty diff-stat line, in input order,
\* with the integer value of a purely numeric field and null otherwise, and
\* stats.total holds the sums of the non-null insertions and deletions.
C8_Stats ==
    pc = "output" =>
        LET files == FileLines(fin)
        IN  /\ Len(fout.file) = Len(files)
            /\ \A i \in 1..Len(files) :
                  /\ fout.file[i].path = files[i].path
                  /\ fout.file[i].insertions = files[i].ins
                  /\ fout.file[i].deletions = files[i].del
            /\ fout.total.insertions = CountSum(files, "ins", Len(files))
            /\ fout.total.deletions = CountSum(files, "del", Len(files))

\* the three lines '3 0 foo.txt', '- - binary.bin', '0 5 bar.txt' give totals 3 and 5
C8_Witness ==
    /\ pc = "output"
    /\ fin = <<FileLine(Num(3), Num(0), W_foo), FileLine(Null, Null, W_bin),
               FileLine(Num(0), Num(5), W_bar)>>
    /\ fout.file = <<[path |-> W_foo, insertions |-> Num(3), deletions |-> Num(0)],
                     [path |-> W_bin, insertions |-> Null, deletions |-> Null],
                     [path |-> W_bar, insertions |-> Num(0), deletions |-> Num(5)]>>
    /\ fout.total = [insertions |-> 3, deletions |-> 5]

\* ---- lookup repo name and generate id (src/main.js 33-35, 101-102)
UrlPool ==
    { <<"h", "/", "a", "-", "b">>, <<"h", "/", "a">>, <<"h", "/", "b">> }

RemoteNamePool == { <<"c">>, <<"b", "-", "c">>, <<"a">> }

HashPool == { <<"f", "0", "0", "d">>, <<"b", "e", "e", "f">> }

RunPool == [repoUrl : UrlPool, remoteName : RemoteNamePool, hash : HashPool]

\* repo, remote and _id of the record main() builds for one commit of one run
RecordOf(r) ==
    [repo |-> RepoNameOf(git(r.repoUrl)),
     remote |-> r.remoteName,
     hash |-> r.hash,
     id |-> MakeId(RepoNameOf(git(r.repoUrl)), r.remoteName, r.hash)]

IdInit ==
    /\ Idle
    /\ pc = "input"
    /\ fin \in [1..2 -> RunPool]
    /\ fout = <<>>

\* two commits, each of some run, get their record
GenerateIds ==
    /\ pc = "input"
    /\ fout' = [k \in 1..2 |-> RecordOf(fin[k])]
    /\ pc' = "output"
    /\ UNCHANGED <<fin, progVars>>

IdNext == GenerateIds

SpecId == IdInit /\ [][IdNext]_vars

\* C10: two records that differ in repo name, remote name or commit hash have
\* different _id values.
C10_IdUnique ==
    pc = "output" =>
        ((fout[1].repo # fout[2].repo \/ fout[1].remote # fout[2].remote
             \/ fout[1].hash # fout[2].hash)
            => fout[1].id # fout[2].id)

(***************************************************************************)
(* The repository and the git commands main() runs on it                   *)
(***************************************************************************)
MaxRuns == 2
NumHashes == 3

Hash(i) == <<"c", Digits[i + 1]>>

CommitNo(hash) == CHOOSE i \in 1..NumHashes : Hash(i) = hash

W_featureX == Ref(<<W_feature, W_x>>)

\* the branches the remote may have, in the order git prints them here
BranchPool == <<W_main, W_featureX>>

BranchNames == {BranchPool[k] : k \in 1..Len(BranchPool)}

\* the commit graph: commit 1 is the root, 2 and 3 are its children, every
\* later commit merges the two before it
Parents(i) == IF i = 1 THEN {} ELSE IF i <= 3 THEN {1} ELSE {i - 1, i - 2}

\* the commits reachable from commit i, i included
RECURSIVE Ancestors(_)
Ancestors(i) == {i} \cup UNION {Ancestors(p) : p \in Parents(i)}

\* a repository: some of the branches, each pointing at a commit
Worlds == UNION {[B -> 1..NumHashes] : B \in SUBSET BranchNames}

\* if (!remoteName) remoteName = 'origin'
Default(arg, dflt) == IF arg = Undefined \/ arg = <<>> THEN dflt ELSE arg

ArgRemote == Undefined

remoteName == Default(ArgRemote, W_origin)

\* standard output of git config --get remote.<remote>.url
RepoUrlOutput == <<"h", "/", "a", "-", "b", NL>>

\* standard output of git branch -r --format='%(refname)'
BranchOutput(w) ==
    LET present == SelectSeq(BranchPool, LAMBDA b : b \in DOMAIN w)
        refs == <<Ref(<<W_refs, W_remotes, W_up, W_main>>),
                  Ref(<<W_refs, W_remotes, W_origin, W_HEAD>>)>>
                \o MapSeq(LAMBDA b : Ref(<<W_refs, W_remotes, W_origin, b>>), present)
    IN  Concat(MapSeq(LAMBDA l : l \o <<NL>>, refs))

\* the numbers of set S, largest (newest) first
RECURSIVE Descending(_)
Descending(S) ==
    IF S = {} THEN <<>>
    ELSE LET m == CHOOSE x \in S : \A y \in S : y <= x
         IN  <<m>> \o Descending(S \ {m})

\* standard output of git rev-list --full-history <remote>/<branch>
RevListOutput(w, branch) ==
    Concat(MapSeq(LAMBDA i : Hash(i) \o <<NL>>, Descending(Ancestors(w[branch]))))

DateText(i) == Decimal(10 * i) \o <<SP, IF i % 2 = 0 THEN "+" ELSE "-">> \o Decimal(i)

SubjectText(i) ==
    IF i = 1 THEN W_Merged \o <<SP>> \o W_PR \o <<SP, "7", ":", SP>> \o W_x
    ELSE IF i = 2 THEN W_Merge \o <<SP>> \o W_dev
    ELSE W_x \o <<SP>> \o Decimal(i)

\* the git show -s --format queries of the per-commit loop, in program order
ShowFormats == <<"ae", "an", "ai", "ce", "cn", "ci", "s", "b">>

\* standard output of git show -s --format='%<format>' <hash>
ShowOutput(format, hash) ==
    LET i == CommitNo(hash)
    IN  CASE format = "ae" -> <<"a">> \o Decimal(i) \o <<NL>>
          [] format = "an" -> <<"A", SP, "a", NL>>
          [] format = "ai" -> DateText(i) \o <<NL>>
          [] format = "ce" -> <<"c", NL>>
          [] format = "cn" -> <<"C", NL>>
          [] format = "ci" -> DateText(i + 1) \o <<NL>>
          [] format = "s" -> SubjectText(i) \o <<NL>>
          [] format = "b" -> IF i = 1 THEN <<"b", NL, NL>> ELSE <<NL>>

\* standard output of git show --format='' --numstat <hash>
NumstatOf(hash) ==
    LET i == CommitNo(hash)
    IN  IF i = 1
        THEN NumstatOutput(<<BlankLine, FileLine(Num(3), Num(0), W_foo),
                             FileLine(Null, Null, W_bin)>>) \o <<NL>>
        ELSE IF i = 2 THEN <<>>
        ELSE NumstatOutput(<<FileLine(Num(12), Num(5), W_bar)>>) \o <<NL>>

\* new Date(text) for the text '<local time> <sign><offset>': the instant
ParseDate(text) ==
    LET parts == Split(text, SP)
        offset == ParseInt(Tail(parts[2]))
    IN  IF parts[2][1] = "-" THEN ParseInt(parts[1]) + offset
        ELSE ParseInt(parts[1]) - offset

(***************************************************************************)
(* The commit map and the collection                                       *)
(***************************************************************************)
With(r, field, v) == [f \in DOMAIN r \cup {field} |-> IF f = field THEN v ELSE r[f]]

\* commits.has(commitHash)
MapHas(map, hash) == \E k \in 1..Len(map) : map[k].hash = hash

MapIndex(map, hash) == CHOOSE k \in 1..Len(map) : map[k].hash = hash

\* faulty variant: commits.set without the commits.has test
WalkHashOverwrite(map, repo, remote, branch, hash) ==
    LET fresh == [repo |-> repo, remote |-> remote, hash |-> hash, branches |-> <<branch>>]
    IN  IF MapHas(map, hash) THEN [map EXCEPT ![MapIndex(map, hash)] = fresh]
        ELSE Append(map, fresh)

\* faulty variant: the branch is pushed onto every record of the map
WalkHashEveryRecord(map, repo, remote, branch, hash) ==
    LET fresh == [repo |-> repo, remote |-> remote, hash |-> hash, branches |-> <<branch>>]
        all == [k \in 1..Len(map) |->
                  IF branch \in {map[k].branches[j] : j \in 1..Len(map[k].branches)}
                  THEN map[k]
                  ELSE [map[k] EXCEPT !.branches = Append(@, branch)]]
    IN  IF MapHas(map, hash) THEN all ELSE Append(all, fresh)

\* the body of the forEach callback of the history walk
WalkHash(map, repo, remote, branch, hash) ==
    IF MapHas(map, hash)
    THEN [map EXCEPT ![MapIndex(map, hash)].branches = Append(@, branch)]
    ELSE Append(map, [repo |-> repo, remote |-> remote, hash |-> hash,
                      branches |-> <<branch>>])

\* .forEach over the hashes one branch yielded
RECURSIVE WalkHashes(_, _, _, _, _)
WalkHashes(map, repo, remote, branch, hashes) ==
    IF hashes = <<>> THEN map
    ELSE WalkHashes(WalkHash(map, repo, remote, branch, hashes[1]),
                    repo, remote, branch, Tail(hashes))

\* faulty variant: the branches are appended to the stored list ($push)
UpsertPush(coll, doc) ==
    LET id == doc["_id"]
    IN  IF id \in DOMAIN coll
        THEN [coll EXCEPT ![id] =
                 [f \in DOMAIN @ \cup DOMAIN doc |->
                     IF f = "branches" THEN @[f] \o doc[f]
                     ELSE IF f \in DOMAIN doc THEN doc[f] ELSE @[f]]]
        ELSE [k \in DOMAIN coll \cup {id} |-> IF k = id THEN doc ELSE coll[k]]

\* updateOne({_id}, {$set: {...commitDetails}}, {upsert: true}) applied by the server
Upsert(coll, doc) ==
    LET id == doc["_id"]
    IN  IF id \in DOMAIN coll
        THEN [coll EXCEPT ![id] =
                 [f \in DOMAIN @ \cup DOMAIN doc |->
                     IF f \in DOMAIN doc THEN doc[f] ELSE @[f]]]
        ELSE [k \in DOMAIN coll \cup {id} |-> IF k = id THEN doc ELSE coll[k]]

(***************************************************************************)
(* main(): one action per external operation it performs                   *)
(***************************************************************************)
Entry(op, hash, doc) == [op |-> op, hash |-> hash, doc |-> doc]

NoHash == <<>>
NoDoc == <<>>

Init ==
    /\ pc = "connect"
    /\ world \in Worlds
    /\ changed = FALSE
    /\ run = 1
    /\ repoName = <<>>
    /\ branches = <<>>
    /\ bi = 0
    /\ listed = <<>>
    /\ commits = <<>>
    /\ ci = 0
    /\ cur = <<>>
    /\ store = <<>>
    /\ first = [done |-> FALSE, store |-> <<>>]
    /\ exits = <<>>
    /\ ops = <<>>
    /\ fin = <<>>
    /\ fout = <<>>

\* faulty variant: the loop stops one commit early
LoopTargetOffByOne(done, total) == IF done < total - 1 THEN "show" ELSE "close"

\* where main() continues once the commit map is complete, or a commit is done
LoopTarget(done, total) == IF done < total THEN "show" ELSE "close"

\* const client = await MongoClient.connect(...)
Connect ==
    /\ pc = "connect"
    /\ ops' = Append(ops, Entry("connect", NoHash, NoDoc))
    /\ pc' = "remoteUrl"
    /\ UNCHANGED <<world, changed, run, repoName, branches, bi, listed, commits, ci, cur,
                   store, first, exits, fin, fout>>

\* the connection promise is rejected
ConnectFail ==
    /\ pc = "connect"
    /\ ops' = Append(ops, Entry("connectFail", NoHash, NoDoc))
    /\ pc' = "catch"
    /\ UNCHANGED <<world, changed, run, repoName, branches, bi, listed, commits, ci, cur,
                   store, first, exits, fin, fout>>

GitSteps == {"remoteUrl", "fetch", "branchList", "revList", "show", "numstat"}

\* execSync throws: the git command exited with a status other than 0
GitFail ==
    /\ pc \in GitSteps
    /\ ops' = Append(ops, Entry("gitFail", NoHash, NoDoc))
    /\ pc' = "catch"
    /\ UNCHANGED <<world, changed, run, repoName, branches, bi, listed, commits, ci, cur,
                   store, first, exits, fin, fout>>

\* lookup repo name
LookupRepoName ==
    /\ pc = "remoteUrl"
    /\ repoName' = RepoNameOf(git(RepoUrlOutput))
    /\ ops' = Append(ops, Entry("git", NoHash, NoDoc))
    /\ pc' = "fetch"
    /\ UNCHANGED <<world, changed, run, branches, bi, listed, commits, ci, cur, store,
                   first, exits, fin, fout>>

\* fetch remotes
FetchRemotes ==
    /\ pc = "fetch"
    /\ ops' = Append(ops, Entry("git", NoHash, NoDoc))
    /\ pc' = "branchList"
    /\ UNCHANGED <<world, changed, run, repoName, branches, bi, listed, commits, ci, cur,
                   store, first, exits, fin, fout>>

\* list all branches; without branches both loops are skipped
ListAllBranches ==
    /\ pc = "branchList"
    /\ branches' = BranchList(BranchOutput(world), remoteName)
    /\ ops' = Append(ops, Entry("git", NoHash, NoDoc))
    /\ pc' = IF Len(branches') > 0 THEN "revList" ELSE LoopTarget(0, 0)
    /\ UNCHANGED <<world, changed, run, repoName, bi, listed, commits, ci, cur, store,
                   first, exits, fin, fout>>

\* lookup all commit hashes: one iteration of the loop over the branches
WalkBranch ==
    /\ pc = "revList"
    /\ LET branch == branches[bi + 1]
           hashes == Lines(git(RevListOutput(world, branch)))
       IN  /\ commits' = WalkHashes(commits, repoName, remoteName, branch, hashes)
           /\ listed' = [b \in DOMAIN listed \cup {branch} |->
                            IF b = branch THEN hashes ELSE listed[b]]
    /\ bi' = bi + 1
    /\ ops' = Append(ops, Entry("git", NoHash, NoDoc))
    /\ pc' = IF bi' < Len(branches) THEN "revList" ELSE LoopTarget(0, Len(commits'))
    /\ UNCHANGED <<world, changed, run, repoName, branches, ci, cur, store, first, exits,
                   fin, fout>>

\* commitDetails once the k-th git show query has returned `out`
Enriched(details, k, results, out) ==
    CASE k = 3 -> With(details, "author",
                       [email |-> results[1], name |-> results[2], date |-> ParseDate(out)])
      [] k = 6 -> With(details, "committer",
                       [email |-> results[4], name |-> results[5], date |-> ParseDate(out)])
      [] k = 7 -> With(details, "subject", out)
      [] k = 8 -> With(With(With(With(details, "body", out),
                                 "isPR", isPR(details.subject)),
                            "isMerge", isMerge(details.subject)),
                       "_id", MakeId(details.repo, details.remote, details.hash))
      [] OTHER -> details

\* fetch commit meta data: one git show query; after the last one, check
\* special commits and generate id
Show ==
    /\ pc = "show"
    /\ LET details == commits[ci + 1]
           k == Len(cur) + 1
           out == git(ShowOutput(ShowFormats[k], details.hash))
       IN  /\ commits' = [commits EXCEPT ![ci + 1] = Enriched(details, k, cur, out)]
           /\ cur' = IF k < Len(ShowFormats) THEN Append(cur, out) ELSE <<>>
           /\ pc' = IF k < Len(ShowFormats) THEN "show" ELSE "numstat"
           /\ ops' = Append(ops, Entry("git", details.hash, NoDoc))
    /\ UNCHANGED <<world, changed, run, repoName, branches, bi, listed, ci, store, first,
                   exits, fin, fout>>

\* fetch commit stats
FetchCommitStats ==
    /\ pc = "numstat"
    /\ LET details == commits[ci + 1]
       IN  /\ commits' = [commits EXCEPT
                             ![ci + 1] = With(details, "stats", Stats(NumstatOf(details.hash)))]
           /\ ops' = Append(ops, Entry("git", details.hash, NoDoc))
    /\ pc' = "updateOne"
    /\ UNCHANGED <<world, changed, run, repoName, branches, bi, listed, ci, cur, store,
                   first, exits, fin, fout>>

\* store to database: collection.updateOne is called and main() awaits its promise
UpdateOne ==
    /\ pc = "updateOne"
    /\ ops' = Append(ops, Entry("updateOne", commits[ci + 1].hash, commits[ci + 1]))
    /\ pc' = "await"
    /\ UNCHANGED <<world, changed, run, repoName, branches, bi, listed, commits, ci, cur,
                   store, first, exits, fin, fout>>

\* the write is acknowledged: bar.tick() and the next iteration
UpsertAck ==
    /\ pc = "await"
    /\ store' = Upsert(store, commits[ci + 1])
    /\ ops' = Append(ops, Entry("ack", commits[ci + 1].hash, NoDoc))
    /\ ci' = ci + 1
    /\ pc' = LoopTarget(ci', Len(commits))
    /\ UNCHANGED <<world, changed, run, repoName, branches, bi, listed, commits, cur, first,
                   exits, fin, fout>>

\* faulty variant: a rejected write is tried once more before giving up
UpsertFailRetry ==
    /\ pc = "await"
    /\ store' = store
    /\ ops' = Append(ops, Entry("writeFail", commits[ci + 1].hash, NoDoc))
    /\ pc' = IF \E i \in 1..Len(ops) : ops[i].op = "writeFail" THEN "catch" ELSE "updateOne"
    /\ UNCHANGED <<world, changed, run, repoName, branches, bi, listed, commits, ci, cur,
                   first, exits, fin, fout>>

\* the promise of updateOne is rejected; the server may or may not have applied
\* the write (a write concern that times out leaves the document written)
UpsertFail ==
    /\ pc = "await"
    /\ \E applied \in BOOLEAN :
          store' = IF applied THEN Upsert(store, commits[ci + 1]) ELSE store
    /\ ops' = Append(ops, Entry("writeFail", commits[ci + 1].hash, NoDoc))
    /\ pc' = "catch"
    /\ UNCHANGED <<world, changed, run, repoName, branches, bi, listed, commits, ci, cur,
                   first, exits, fin, fout>>

\* close database connection; main() resolves
Close ==
    /\ pc = "close"
    /\ ops' = Append(ops, Entry("close", NoHash, NoDoc))
    /\ pc' = "then"
    /\ UNCHANGED <<world, changed, run, repoName, branches, bi, listed, commits, ci, cur,
                   store, first, exits, fin, fout>>

\* .then(() => { process.exit(0); })
ExitSuccess ==
    /\ pc = "then"
    /\ exits' = Append(exits, 0)
    /\ pc' = "exit0"
    /\ UNCHANGED <<world, changed, run, repoName, branches, bi, listed, commits, ci, cur,
                   store, first, ops, fin, fout>>

\* faulty variant: the error is logged but the exit code is 0
ExitFailureCodeZero ==
    /\ pc = "catch"
    /\ exits' = Append(exits, 0)
    /\ pc' = "exit0"
    /\ UNCHANGED <<world, changed, run, repoName, branches, bi, listed, commits, ci, cur,
                   store, first, ops, fin, fout>>

\* .catch(error => { console.log(error); process.exit(1); })
ExitFailure ==
    /\ pc = "catch"
    /\ exits' = Append(exits, 1)
    /\ pc' = "exit1"
    /\ UNCHANGED <<world, changed, run, repoName, branches, bi, listed, commits, ci, cur,
                   store, first, ops, fin, fout>>

Exited == pc \in {"exit0", "exit1"}

\* the program is started again, with the same arguments and database
Rerun ==
    /\ Exited
    /\ run < MaxRuns
    /\ run' = run + 1
    /\ first' = IF run = 1 THEN [done |-> pc = "exit0", store |-> store] ELSE first
    /\ pc' = "connect"
    /\ repoName' = <<>>
    /\ branches' = <<>>
    /\ bi' = 0
    /\ listed' = <<>>
    /\ commits' = <<>>
    /\ ci' = 0
    /\ cur' = <<>>
    /\ exits' = <<>>
    /\ ops' = <<>>
    /\ UNCHANGED <<world, changed, store, fin, fout>>

\* the repositories one push away: one branch moved, created or deleted
Pushes(w) ==
    {v \in Worlds :
        Cardinality({b \in BranchNames :
                        \/ (b \in DOMAIN v) # (b \in DOMAIN w)
                        \/ b \in DOMAIN v \cap DOMAIN w /\ v[b] # w[b]}) = 1}

\* between two runs somebody pushes to the remote
RepoChange ==
    /\ pc = "connect"
    /\ run > 1
    /\ ~changed
    /\ world' \in Pushes(world)
    /\ changed' = TRUE
    /\ UNCHANGED <<pc, run, repoName, branches, bi, listed, commits, ci, cur, store, first,
                   exits, ops, fin, fout>>

Next ==
    \/ Connect
    \/ ConnectFail
    \/ GitFail
    \/ LookupRepoName
    \/ FetchRemotes
    \/ ListAllBranches
    \/ WalkBranch
    \/ Show
    \/ FetchCommitStats
    \/ UpdateOne
    \/ UpsertAck
    \/ UpsertFail
    \/ Close
    \/ ExitSuccess
    \/ ExitFailure
    \/ Rerun
    \/ RepoChange

Spec == Init /\ [][Next]_vars

(***************************************************************************)
(* Properties of a run                                                     *)
(***************************************************************************)
SeqSet(q) == {q[k] : k \in 1..Len(q)}

Occurrences(q, x) == Cardinality({k \in 1..Len(q) : q[k] = x})

SamePermutation(a, b) ==
    /\ Len(a) = Len(b)
    /\ \A x \in SeqSet(a) \cup SeqSet(b) : Occurrences(a, x) = Occurrences(b, x)

OpsOf(kind) == {i \in 1..Len(ops) : ops[i].op = kind}

FailOps == {"connectFail", "gitFail", "writeFail"}

Failed == \E i \in 1..Len(ops) : ops[i].op \in FailOps

\* the loop over the branches has run to its end
Walked ==
    /\ pc \notin {"connect", "remoteUrl", "fetch", "branchList", "revList"}
    /\ bi = Len(branches)
    /\ DOMAIN listed = SeqSet(branches)

\* hash -> set of branches, as the commit map records it
Membership(map) == {<<map[k].hash, SeqSet(map[k].branches)>> : k \in 1..Len(map)}

\* the walk of the branches in the order `order`, over the listings of this run
RECURSIVE WalkInOrder(_, _, _)
WalkInOrder(map, order, k) ==
    IF k > Len(order) THEN map
    ELSE WalkInOrder(WalkHashes(map, repoName, remoteName, order[k], listed[order[k]]),
                     order, k + 1)

Orders(q) ==
    {[k \in 1..Len(q) |-> q[f[k]]] :
        f \in {g \in [1..Len(q) -> 1..Len(q)] : \A i, j \in 1..Len(q) : g[i] = g[j] => i = j}}

\* C1: once all branches are walked, a commit listed by two branches has exactly
\* one record in the commit map, with both branches in its branch list; walking
\* the branches in any other order gives every commit the same set of branches.
C1_Deduplicated ==
    Walked =>
        /\ \A b1, b2 \in SeqSet(branches) :
              \A c \in SeqSet(listed[b1]) \cap SeqSet(listed[b2]) :
                 /\ Cardinality({k \in 1..Len(commits) : commits[k].hash = c}) = 1
                 /\ {b1, b2} \subseteq SeqSet(commits[MapIndex(commits, c)].branches)
        /\ \A order \in Orders(branches) :
              Membership(WalkInOrder(<<>>, order, 1)) = Membership(commits)

C1_Witness ==
    /\ Walked
    /\ Len(branches) = 2
    /\ \E c \in SeqSet(listed[branches[1]]) \cap SeqSet(listed[branches[2]]) :
          /\ MapHas(commits, c)
          /\ commits[MapIndex(commits, c)].branches = branches
    /\ Len(commits) > 1

\* C2: every document handed to the store has a non-empty branch list, every
\* branch in it is one whose hash listing of this run held the commit's hash,
\* and the stored document carries that list.
C2_BranchesConfirmed ==
    \A i \in OpsOf("updateOne") :
        LET doc == ops[i].doc
        IN  /\ Len(doc.branches) > 0
            /\ \A b \in SeqSet(doc.branches) :
                  b \in DOMAIN listed /\ doc.hash \in SeqSet(listed[b])
            /\ (i < Len(ops) /\ ops[i + 1].op = "ack") =>
                  /\ doc["_id"] \in DOMAIN store
                  /\ store[doc["_id"]].branches = doc.branches

C2_Witness ==
    /\ pc = "exit0"
    /\ \E i \in OpsOf("updateOne") : Len(ops[i].doc.branches) = 1
    /\ \E i \in OpsOf("updateOne") : Len(ops[i].doc.branches) = 2

\* the document is in the collection with the fields it was written with
Persisted(doc) ==
    /\ doc["_id"] \in DOMAIN store
    /\ \A f \in DOMAIN doc : store[doc["_id"]][f] = doc[f]

\* C3: when the upsert of the N-th commit fails, nothing is written after it,
\* neither that commit again nor a later one, and the documents of the commits
\* 1..N-1 are in the store as they were written.
C3_WriteFailure ==
    \A i \in OpsOf("writeFail") :
        /\ i = Len(ops)
        /\ ops[i - 1].op = "updateOne" /\ ops[i - 1].hash = ops[i].hash
        /\ Cardinality({j \in OpsOf("updateOne") : ops[j].hash = ops[i].hash}) = 1
        /\ \A j \in OpsOf("updateOne") : j < i - 1 => Persisted(ops[j].doc)
        /\ Cardinality(OpsOf("updateOne")) = ci + 1

C3_Witness ==
    /\ pc = "exit1"
    /\ OpsOf("writeFail") # {}
    /\ ci = 2
    /\ Cardinality(DOMAIN store) >= 2

\* the distinct commits the walk of this run found
Found == UNION {SeqSet(listed[b]) : b \in DOMAIN listed}

\* C4: in a run that ends with success every distinct commit found by the walk
\* is upserted exactly once, every upsert is acknowledged before anything else
\* is done, and success is reported after the last upsert.
C4_OncePerCommit ==
    pc = "exit0" =>
        /\ \A h \in Found : Cardinality({i \in OpsOf("updateOne") : ops[i].hash = h}) = 1
        /\ \A i \in OpsOf("updateOne") :
              /\ ops[i].hash \in Found
              /\ i < Len(ops)
              /\ ops[i + 1].op = "ack"
              /\ ops[i + 1].hash = ops[i].hash
        /\ \A i \in OpsOf("ack") : i > 1 /\ ops[i - 1].op = "updateOne"
        /\ ops[Len(ops)].op = "close"
        /\ \A i \in OpsOf("close") : i = Len(ops)

C4_Witness ==
    /\ pc = "exit0"
    /\ Cardinality(Found) = NumHashes
    /\ Cardinality(OpsOf("ack")) = NumHashes

\* C5: a second complete run over the unchanged repository into the same
\* database leaves the same documents under the same _id values, with the same
\* field values, the branch list up to the order of its entries.
C5_Idempotent ==
    (pc = "exit0" /\ run > 1 /\ first.done /\ ~changed) =>
        /\ DOMAIN store = DOMAIN first.store
        /\ \A i \in OpsOf("updateOne") :
              /\ ops[i].doc["_id"] \in DOMAIN first.store
              /\ first.store[ops[i].doc["_id"]].hash = ops[i].hash
        /\ \A id \in DOMAIN store :
              /\ DOMAIN store[id] = DOMAIN first.store[id]
              /\ \A f \in DOMAIN store[id] \ {"branches"} :
                    store[id][f] = first.store[id][f]
              /\ SamePermutation(store[id].branches, first.store[id].branches)

C5_Witness ==
    /\ pc = "exit0"
    /\ run > 1
    /\ first.done
    /\ ~changed
    /\ Cardinality(DOMAIN store) = NumHashes
    /\ \E id \in DOMAIN store : Len(store[id].branches) = 2

\* the commits reachable from the branches of the remote
Reachable == UNION {{Hash(i) : i \in Ancestors(world[b])} : b \in DOMAIN world}

\* C6: after a failed connection, git command or upsert the run performs no
\* further operation and ends with exit code 1; exit code 0 is given only when
\* nothing failed and every distinct commit has been upserted.
C6_FatalErrors ==
    /\ \A i \in 1..Len(ops) : ops[i].op \in FailOps => i = Len(ops)
    /\ Failed => pc \in {"catch", "exit1"}
    /\ pc = "catch" => (Failed /\ exits = <<>> /\ ENABLED ExitFailure)
    /\ pc = "exit1" => (Failed /\ exits = <<1>>)
    /\ exits # <<>> => (Exited /\ Len(exits) = 1)
    /\ exits = <<0>> =>
          /\ ~Failed
          /\ \A h \in Reachable :
                /\ \E i \in OpsOf("ack") : ops[i].hash = h
                /\ MakeId(repoName, remoteName, h) \in DOMAIN store

C6_Witness ==
    /\ pc = "exit1"
    /\ exits = <<1>>
    /\ ops[Len(ops)].op = "gitFail"
    /\ Cardinality(OpsOf("ack")) = 1
    /\ ops[Len(ops) - 1].op = "git"
    /\ ops[Len(ops) - 1].hash # NoHash

====
